---- MODULE Spec2Model ----
(***************************************************************************)
(* Model of the arXiv paper searcher (paper-scraping/arxiv_searcher.py)   *)
(* and of its Streamlit front end (paper-scraping/streamlit_app.py).      *)
(*                                                                         *)
(* A Python string is a sequence of one-character strings; a Python value *)
(* carries its run-time type, because the code's behaviour depends on it  *)
(* (re.match on a non-string raises, iterating a str yields characters).  *)
(***************************************************************************)
EXTENDS Integers, Sequences, FiniteSets, TLC

VARIABLES
    \* ---- one activation of arxiv_searcher.search --------------------
    pc,                 \* "idle" | "loop" | "returned" | the exception raised
    args,               \* the arguments of the call
    locals,             \* search's locals set before the loop (lines 122-127)
    client,             \* TRUE once arxiv.Client() was created (line 129)
    qi,                 \* index into `queries` of the next loop iteration
    papers,             \* search's local dict (line 130), key -> Paper
    issued,             \* the arxiv.Search objects handed to client.results
    failed,             \* queries whose try block ended in the except clause
    fetched,            \* history: identifiers of the relevant results yielded
    \* ---- one browser session of streamlit_app.py --------------------
    session,            \* st.session_state: [papers, searched]
    cache,              \* st.cache_data store of search_papers
    now,                \* wall clock, minutes
    widgets,            \* values of the form's widgets
    view,               \* what the last script run rendered
    clicks,             \* number of Search clicks so far
    trace,              \* history of the last click's call of search_papers
    \* ---- one evaluation of is_relevant ------------------------------
    relIn,
    relOut

searchVars == <<pc, args, locals, client, qi, papers, issued, failed, fetched>>
appVars    == <<session, cache, now, widgets, view, clicks, trace>>
relVars    == <<relIn, relOut>>
vars       == <<pc, args, locals, client, qi, papers, issued, failed, fetched,
                session, cache, now, widgets, view, clicks, trace, relIn, relOut>>

---------------------------------------------------------------------------
(* Bounds of the exploration *)

MaxYield  == 2      \* results one query yields before it ends or fails
MaxClicks == 3      \* Search clicks in one session
MaxNow    == 120    \* the clock stops here
TickMinutes == 30   \* the clock advances in steps of this many minutes

---------------------------------------------------------------------------
(* Python values *)

PyNone        == [type |-> "NoneType"]
PyStr(s)      == [type |-> "str", val |-> s]
PyList(l)     == [type |-> "list", val |-> l]
PyDate(y,m,d) == [type |-> "date", y |-> y, m |-> m, d |-> d]

\* bool(v)
Truthy(v) ==
    CASE v.type = "NoneType" -> FALSE
      [] v.type = "str"      -> v.val # <<>>
      [] v.type = "list"     -> v.val # <<>>
      [] OTHER               -> TRUE

\* for x in v: the items a for loop (or a generator expression) sees.
\* Iterating a str yields its characters, each a str of length one.
Iter(v) ==
    CASE v.type = "list" -> v.val
      [] v.type = "str"  -> [i \in 1..Len(v.val) |-> <<v.val[i]>>]
      [] OTHER           -> <<>>

Range(f) == {f[i] : i \in DOMAIN f}

UpperChars == <<"A","B","C","D","E","F","G","H","I","J","K","L","M",
                "N","O","P","Q","R","S","T","U","V","W","X","Y","Z">>
LowerChars == <<"a","b","c","d","e","f","g","h","i","j","k","l","m",
                "n","o","p","q","r","s","t","u","v","w","x","y","z">>

\* a plausible slip: the text is compared without lowercasing
LowerCharAsIs(c) == c

\* str.lower() on one character
LowerChar(c) ==
    IF \E i \in DOMAIN UpperChars : UpperChars[i] = c
    THEN LowerChars[CHOOSE i \in DOMAIN UpperChars : UpperChars[i] = c]
    ELSE c

\* str.lower()
lower(s) == [i \in DOMAIN s |-> LowerChar(s[i])]

\* sub in s, for two str
Contains(sub, s) ==
    \E i \in 0..(Len(s) - Len(sub)) :
        \A j \in 1..Len(sub) : s[i + j] = sub[j]

Whitespace == {" ", "\n", "\t"}

RECURSIVE lstrip(_)
lstrip(s) == IF s # <<>> /\ Head(s) \in Whitespace THEN lstrip(Tail(s)) ELSE s

RECURSIVE rstrip(_)
rstrip(s) ==
    IF s # <<>> /\ s[Len(s)] \in Whitespace THEN rstrip(SubSeq(s, 1, Len(s) - 1)) ELSE s

\* str.strip()
strip(s) == rstrip(lstrip(s))

\* str.split(","): the pieces between the commas, empty pieces included
RECURSIVE SplitFrom(_, _, _)
SplitFrom(s, i, cur) ==
    IF i > Len(s) THEN <<cur>>
    ELSE IF s[i] = "," THEN <<cur>> \o SplitFrom(s, i + 1, <<>>)
    ELSE SplitFrom(s, i + 1, Append(cur, s[i]))

split(s) == SplitFrom(s, 1, <<>>)

---------------------------------------------------------------------------
(* arxiv_searcher.py *)

\* DATE_FORMAT_RE = re.compile(r"^\d{12}$"): the repetition count
DateDigits == 12

AsciiDigits == {"0","1","2","3","4","5","6","7","8","9"}

\* In a str pattern \d matches every Unicode decimal digit, not only 0-9;
\* "U+0663" stands for ARABIC-INDIC DIGIT THREE, one such character.
UnicodeDigits == AsciiDigits \cup {"U+0663"}

\* DATE_FORMAT_RE.match(s) for a str s.  `$` matches at the end of the
\* string and also just before a newline that ends the string.
DATE_FORMAT_RE_match(s) ==
    /\ Len(s) >= DateDigits
    /\ \A i \in 1..DateDigits : s[i] \in UnicodeDigits
    /\ \/ Len(s) = DateDigits
       \/ Len(s) = DateDigits + 1 /\ s[DateDigits + 1] = "\n"

DEFAULT_MUST_INCLUDE_KEYWORDS == <<
    <<"l","a","r","g","e"," ","l","a","n","g","u","a","g","e"," ","m","o","d","e","l","s">>,
    <<"L","L","M","s">>,
    <<"G","P","T">>,
    <<"B","E","R","T">>,
    <<"t","r","a","n","s","f","o","r","m","e","r","s">> >>

DEFAULT_OPTIONAL_KEYWORDS == <<
    <<"a","u","t","o","m","a","t","e","d"," ","p","l","a","n","n","i","n","g">>,
    <<"s","y","m","b","o","l","i","c"," ","p","l","a","n","n","i","n","g">>,
    <<"n","e","u","r","o","s","y","m","b","o","l","i","c"," ","p","l","a","n","n","i","n","g">>,
    <<"t","a","s","k"," ","p","l","a","n","n","i","n","g">>,
    <<"A","I"," ","p","l","a","n","n","i","n","g">>,
    <<"P","D","D","L">>,
    <<"c","o","n","s","t","r","a","i","n","t","-","b","a","s","e","d"," ","p","l","a","n","n","i","n","g">>,
    <<"h","i","e","r","a","r","c","h","i","c","a","l"," ","t","a","s","k"," ","p","l","a","n","n","i","n","g">>,
    <<"m","u","l","t","i","-","a","g","e","n","t"," ","p","l","a","n","n","i","n","g">>,
    <<"r","o","b","o","t"," ","p","l","a","n","n","i","n","g">> >>

\* the five hard-coded query strings
queries == <<
    "cat:cs.AI AND (\"large language models\" OR \"LLMs\" OR \"GPT\" OR \"BERT\" OR transformers)",
    "cat:cs.AI AND (\"automated planning\" OR \"symbolic planning\" OR \"neurosymbolic planning\" OR \"task planning\" OR \"AI planning\")",
    "cat:cs.AI AND (\"neural-symbolic\" OR \"neurosymbolic\") AND planning",
    "cat:cs.AI AND (\"large language models\" OR \"LLMs\" OR \"GPT\" OR \"BERT\" OR transformers) AND planning",
    "cat:cs.AI AND (\"large language models\" OR \"LLMs\" OR \"GPT\" OR \"BERT\" OR transformers) AND PDDL" >>

\* arxiv.Search(max_results=300)
max_results == 300

\* (paper.title + " " + paper.summary).lower()
RelevanceText(paper) ==
    lower(paper.title \o <<" ">> \o paper.summary)

\* any(keyword.lower() in text for keyword in keywords)
AnyKeywordIn(keywords, text) ==
    \E i \in DOMAIN Iter(keywords) : Contains(lower(Iter(keywords)[i]), text)

is_relevant(paper, must_include, optional) ==
    /\ AnyKeywordIn(must_include, RelevanceText(paper))
    /\ AnyKeywordIn(optional, RelevanceText(paper))

RECURSIVE StripAndDrop(_)
StripAndDrop(items) ==
    IF items = <<>> THEN <<>>
    ELSE IF strip(Head(items)) # <<>>
         THEN <<strip(Head(items))>> \o StripAndDrop(Tail(items))
         ELSE StripAndDrop(Tail(items))

\* parse_keyword_list(raw_keywords), the result as a Python list's items
parse_keyword_list(raw_keywords) ==
    IF ~Truthy(raw_keywords) THEN <<>>
    ELSE StripAndDrop(split(raw_keywords.val))

\* validate_date_str(date_str): "ok", or the exception it raises.
\* Pattern.match raises TypeError for an argument that is not a str.
validate_date_str(date_str) ==
    IF date_str.type # "str" THEN "TypeError"
    ELSE IF ~DATE_FORMAT_RE_match(date_str.val) THEN "ValueError"
    ELSE "ok"

Relevance_str == <<"r","e","l","e","v","a","n","c","e">>
Submitted_str == <<"s","u","b","m","i","t","t","e","d">>

\* search, lines 120-130: everything before the loop.  `raised` is "none"
\* or the exception that leaves search; `client` tells whether line 129 ran.
SearchPreamble(okw, start_date, end_date, sort_by) ==
    LET kws == IF Truthy(okw) THEN okw ELSE PyList(DEFAULT_OPTIONAL_KEYWORDS)
        v1  == validate_date_str(start_date)
        v2  == validate_date_str(end_date)
        exc == IF v1 # "ok" THEN v1 ELSE IF v2 # "ok" THEN v2 ELSE "none"
    IN [raised            |-> exc,
        optional_keywords |-> kws,
        date_range        |-> IF exc = "none" THEN <<start_date.val, end_date.val>> ELSE <<>>,
        sort_option       |-> IF sort_by = PyStr(Relevance_str) THEN "Relevance" ELSE "SubmittedDate",
        client            |-> exc = "none"]

\* Paper(...) built from a result (lines 142-151); the fields no operation
\* of the model reads (authors, published, updated, pdf_link) are left out.
MakePaper(result) ==
    [arxiv_id |-> result.short_id,
     title    |-> result.title,
     abstract |-> result.summary,
     link     |-> result.entry_id]

---------------------------------------------------------------------------
(* The environment of search: what the callers pass, what arXiv answers *)

D_Jan     == <<"2","0","2","4","0","1","0","1","0","0","0","0">>
D_Jun     == <<"2","0","2","4","0","6","0","1","0","0","0","0">>
D_Short   == <<"2","0","2","4","0","1","0","1","0","0","0">>
D_Newline == <<"2","0","2","4","0","1","0","1","0","0","0","0","\n">>
D_Dashed  == <<"2","0","2","4","-","0","1","-","0","1">>
D_Arabic  == <<"2","0","2","4","0","1","0","1","0","0","0","U+0663">>

\* start_date / end_date of a call; the command line passes None for a
\* flag that is not given (lines 167-179)
DateArgs == {PyStr(D_Jan), PyStr(D_Jun), PyStr(D_Short), PyStr(D_Newline),
             PyStr(D_Dashed), PyStr(D_Arabic), PyNone}

KW_PDDL  == <<"P","D","D","L">>
KW_robot == <<"r","o","b","o","t">>
KW_task  == <<"t","a","s","k">>
KW_GPT   == <<"G","P","T">>

\* optional_keywords of a call: the output of parse_keyword_list (line 192)
KeywordArgs == {PyList(<<>>), PyList(<<KW_PDDL>>), PyList(<<KW_robot, KW_task>>)}

SortArgs == {PyStr(Relevance_str), PyStr(Submitted_str)}

\* results the API may yield (arxiv.Result: entry_id, title, summary, ...)
SampleResults == {
    [entry_id |-> "http://arxiv.org/abs/2401.00001v1", short_id |-> "2401.00001v1",
     title    |-> <<"L","l","m","s"," ","a","n","d"," ","p","d","d","l">>,
     summary  |-> <<"t","a","s","k"," ","p","l","a","n","n","i","n","g">>],
    [entry_id |-> "http://arxiv.org/abs/2401.00002v1", short_id |-> "2401.00002v1",
     title    |-> <<"G","P","T">>,
     summary  |-> <<"r","o","b","o","t"," ","p","l","a","n","n","i","n","g">>],
    [entry_id |-> "http://arxiv.org/abs/2401.00003v1", short_id |-> "2401.00003v1",
     title    |-> <<"G","r","a","p","h"," ","s","e","a","r","c","h">>,
     summary  |-> <<"P","D","D","L">>] }

SeqsUpTo(S, n) == UNION {[1..k -> S] : k \in 0..n}

\* what one client.results(search) iteration does: it yields some results,
\* then either ends or raises
Responses == {[results |-> rs, fails |-> f] :
                 rs \in SeqsUpTo(SampleResults, MaxYield), f \in BOOLEAN}

---------------------------------------------------------------------------
(* The loop of search (lines 133-153) *)

\* the values search's local optional_keywords takes for KeywordArgs
LoopKeywords ==
    {IF Truthy(k) THEN k ELSE PyList(DEFAULT_OPTIONAL_KEYWORDS) : k \in KeywordArgs}

\* is_relevant(result, DEFAULT_MUST_INCLUDE_KEYWORDS, optional_keywords) of
\* line 141, evaluated once for each sample result and keyword list
RelevanceTable ==
    [r \in SampleResults, k \in LoopKeywords |->
        is_relevant(r, PyList(DEFAULT_MUST_INCLUDE_KEYWORDS), k)]

\* the test of line 141
RelevantResult(r, kws) ==
    IF r \in SampleResults /\ kws \in LoopKeywords
    THEN RelevanceTable[r, kws]
    ELSE is_relevant(r, PyList(DEFAULT_MUST_INCLUDE_KEYWORDS), kws)

\* a plausible slip: one entry per (identifier, query)
StoreKeyPerQuery(result, q) == <<result.entry_id, q>>

\* the key of papers[result.entry_id] = ... (line 142)
StoreKey(result, q) == result.entry_id

\* d[k] = v
DictSet(d, k, v) == [x \in (DOMAIN d) \cup {k} |-> IF x = k THEN v ELSE d[x]]

\* the body of `for result in client.results(search)` over the results a
\* query yields (lines 140-151)
RECURSIVE StoreResults(_, _, _, _)
StoreResults(d, results, kws, q) ==
    IF results = <<>> THEN d
    ELSE LET r == Head(results)
             d1 == IF RelevantResult(r, kws)
                   THEN DictSet(d, StoreKey(r, q), MakePaper(r))
                   ELSE d
         IN StoreResults(d1, Tail(results), kws, q)

\* the arxiv.Search object of lines 135-138
MakeSearch(q, date_range, sort_option) ==
    [query |-> queries[q], date_range |-> date_range,
     max_results |-> max_results, sort_by |-> sort_option]

\* a plausible slip: the exception of a query leaves the loop
AfterFailureAbort(q) == Len(queries) + 1

\* where the loop goes on after the except clause of line 152: the next query
AfterFailure(q) == q + 1

RECURSIVE RunQueries(_, _, _, _)
\* the whole loop of lines 133-153 against the responses api[1..5]
RunQueries(d, q, api, kws) ==
    IF q > Len(queries) THEN d
    ELSE RunQueries(StoreResults(d, api[q].results, kws, q),
                    IF api[q].fails THEN AfterFailure(q) ELSE q + 1, api, kws)

\* history: the identifiers of the relevant results among those yielded
RelevantIds(results, kws) ==
    {results[i].entry_id : i \in {j \in DOMAIN results : RelevantResult(results[j], kws)}}

---------------------------------------------------------------------------
(* search, called directly (the __main__ block, or another module) *)

NoLocals == [optional_keywords |-> PyNone, date_range |-> <<>>, sort_option |-> "unset"]

SearchInit ==
    /\ pc = "idle"
    /\ args = PyNone
    /\ locals = NoLocals
    /\ client = FALSE
    /\ qi = 1
    /\ papers = <<>>
    /\ issued = <<>>
    /\ failed = {}
    /\ fetched = [rel |-> {}, good |-> {}, dup |-> {}]

\* search(...) is entered and runs up to the loop (lines 120-130)
Call(okw, sd, ed, sb) ==
    /\ pc = "idle"
    /\ LET pre == SearchPreamble(okw, sd, ed, sb)
       IN /\ pc' = IF pre.raised = "none" THEN "loop" ELSE pre.raised
          /\ locals' = [optional_keywords |-> pre.optional_keywords,
                        date_range |-> pre.date_range,
                        sort_option |-> pre.sort_option]
          /\ client' = pre.client
    /\ args' = [optional_keywords |-> okw, start_date |-> sd,
                end_date |-> ed, sort_by |-> sb]
    /\ UNCHANGED <<qi, papers, issued, failed, fetched>>

\* one iteration of `for query in queries` (lines 133-153)
RunQuery(resp) ==
    /\ pc = "loop"
    /\ qi <= Len(queries)
    /\ issued' = Append(issued, MakeSearch(qi, locals.date_range, locals.sort_option))
    /\ papers' = StoreResults(papers, resp.results, locals.optional_keywords, qi)
    /\ failed' = IF resp.fails THEN failed \cup {qi} ELSE failed
    /\ qi' = IF resp.fails THEN AfterFailure(qi) ELSE qi + 1
    /\ LET ids == RelevantIds(resp.results, locals.optional_keywords)
       IN fetched' = [rel  |-> fetched.rel \cup ids,
                      good |-> IF resp.fails THEN fetched.good ELSE fetched.good \cup ids,
                      dup  |-> fetched.dup \cup (fetched.rel \cap ids)]
    /\ UNCHANGED <<pc, args, locals, client>>

\* return papers (line 154)
Return ==
    /\ pc = "loop"
    /\ qi > Len(queries)
    /\ pc' = "returned"
    /\ UNCHANGED <<args, locals, client, qi, papers, issued, failed, fetched>>

Raised == pc \in {"ValueError", "TypeError"}

---------------------------------------------------------------------------
(* streamlit_app.py *)

\* @st.cache_data(ttl=timedelta(hours=1), ...), in minutes
ttl == 60

\* @st.cache_data(..., max_entries=1000, ...)
max_entries == 1000

\* date.today(); the session is taken to lie within one day
Today == PyDate(2026, 11, 3)

Sort_Relevance == <<"R","e","l","e","v","a","n","c","e">>
Sort_Submitted == <<"S","u","b","m","i","t","t","e","d"," ","D","a","t","e">>

\* the keys of ORDER_BY_OPTIONS, the options of the selectbox
ORDER_BY_OPTIONS == {PyStr(Sort_Relevance), PyStr(Sort_Submitted)}

\* the session state set up by the first run of the script (lines 134-139)
InitSession == [papers |-> <<>>, searched |-> FALSE]

\* the widgets' values before the user touches them (lines 144-168)
InitWidgets ==
    [keywords |-> PyStr(<<>>), start_date |-> PyNone,
     end_date |-> Today, sort_option |-> PyStr(Sort_Relevance)]

\* a plausible slip: the empty state does not look at the 'searched' flag
BannerIgnoringFlag(s) ==
    IF DOMAIN s.papers # {} THEN "results" ELSE "empty"

\* the if / elif at the end of the script (lines 188-221): the result list,
\* the empty-results message, or neither
Banner(s) ==
    IF s.searched /\ DOMAIN s.papers # {} THEN "results"
    ELSE IF s.searched /\ DOMAIN s.papers = {} THEN "empty"
    ELSE "none"

\* a plausible slip: the flag is set after the try statement, not inside it
FlagAfterErrorSet(before) == TRUE

\* session_state["searched"] when the except clause was taken: line 177
\* has reset it, line 184 was not reached
FlagAfterError(before) == FALSE

\* the default of line 181
DefaultStart == PyDate(Today.y - 1, 1, 1)

\* the arguments of the call of line 183, which are the memo's key
CallKey(w) ==
    [keywords   |-> w.keywords,
     start_date |-> IF w.start_date = PyNone THEN DefaultStart ELSE w.start_date,
     end_date   |-> w.end_date,
     sort_opt   |-> PyStr(lower(w.sort_option.val))]

\* st.cache_data: an entry is served while it is younger than ttl
CacheHit(c, key, t) ==
    /\ key \in DOMAIN c
    /\ t - c[key].stored_at < ttl

\* st.cache_data: a computed value is stored; beyond max_entries the oldest
\* entry is dropped
CacheStore(c, key, value, t) ==
    LET c1 == DictSet(c, key, [value |-> value, stored_at |-> t])
    IN IF Cardinality(DOMAIN c1) <= max_entries THEN c1
       ELSE LET old == CHOOSE k \in DOMAIN c1 :
                           \A k2 \in DOMAIN c1 : c1[k].stored_at <= c1[k2].stored_at
            IN [k \in (DOMAIN c1) \ {old} |-> c1[k]]

\* search_papers(*key) with the memo c at time t: every way the call can
\* end, as [raised, returned, search_called, queries_issued,
\* optional_keywords, cache].  A call that raises stores nothing.
search_papers(c, key, t) ==
    IF CacheHit(c, key, t)
    THEN {[raised |-> "none", returned |-> c[key].value, search_called |-> FALSE,
           queries_issued |-> 0, optional_keywords |-> <<>>, cache |-> c]}
    ELSE LET pre == SearchPreamble(key.keywords, key.start_date,
                                   key.end_date, key.sort_opt)
         IN IF pre.raised # "none"
            THEN {[raised |-> pre.raised, returned |-> <<>>, search_called |-> TRUE,
                   queries_issued |-> 0,
                   optional_keywords |-> Iter(pre.optional_keywords), cache |-> c]}
            ELSE {[raised |-> "none",
                   returned |-> RunQueries(<<>>, 1, api, pre.optional_keywords),
                   search_called |-> TRUE,
                   queries_issued |-> Len(queries),
                   optional_keywords |-> Iter(pre.optional_keywords),
                   cache |-> CacheStore(c, key,
                                RunQueries(<<>>, 1, api, pre.optional_keywords), t)] :
                     api \in [DOMAIN queries -> Responses]}

\* history of the last click's call of search_papers: its arguments, its
\* time and how it ended
NoTrace ==
    [search_called |-> FALSE, raised |-> "none", queries_issued |-> 0,
     optional_keywords |-> <<>>, returned |-> <<>>, key |-> PyNone, at |-> 0]

AppInit ==
    /\ session = InitSession
    /\ cache = <<>>
    /\ now = 0
    /\ widgets = InitWidgets
    /\ view = [banner |-> Banner(InitSession), error |-> "none", search_button |-> FALSE]
    /\ clicks = 0
    /\ trace = NoTrace

\* what the user can enter in the form
FormKeywords == {PyStr(<<>>), PyStr(<<"p","d","d","l",","," ","l","l","m">>)}
FormStartDates == {PyNone, PyDate(2026, 1, 1), PyDate(2026, 12, 1)}
FormEndDates == {Today, PyDate(2026, 6, 1)}

WidgetValues ==
    [keywords : FormKeywords, start_date : FormStartDates,
     end_date : FormEndDates, sort_option : ORDER_BY_OPTIONS]

\* the user changes a widget: the script reruns with search_button False
Rerun(w) ==
    /\ w # widgets
    /\ widgets' = w
    /\ view' = [banner |-> Banner(session), error |-> "none", search_button |-> FALSE]
    /\ UNCHANGED <<session, cache, now, clicks, trace>>

\* the user clicks Search: the script reruns with search_button True
\* (lines 176-186), calls search_papers (119-126), then renders (188-221)
ClickSearch ==
    /\ clicks < MaxClicks
    /\ clicks' = clicks + 1
    /\ UNCHANGED <<widgets, now>>
    /\ \E o \in search_papers(cache, CallKey(widgets), now) :
         /\ cache' = o.cache
         /\ session' = IF o.raised = "none"
                       THEN [papers |-> o.returned, searched |-> TRUE]
                       ELSE [papers |-> session.papers,
                             searched |-> FlagAfterError(session.searched)]
         /\ view' = [banner |-> Banner(session'), error |-> o.raised,
                     search_button |-> TRUE]
         /\ trace' = [search_called |-> o.search_called, raised |-> o.raised,
                      queries_issued |-> o.queries_issued,
                      optional_keywords |-> o.optional_keywords,
                      returned |-> o.returned,
                      key |-> CallKey(widgets), at |-> now]

\* time passes
Tick ==
    /\ now + TickMinutes <= MaxNow
    /\ now' = now + TickMinutes
    /\ UNCHANGED <<session, cache, widgets, view, clicks, trace>>

---------------------------------------------------------------------------
(* is_relevant, applied to sample papers and keyword lists *)

SampleTitles == {
    <<"L","l","m","s"," ","a","n","d"," ","p","d","d","l">>,
    <<"G","P","T">>,
    <<"G","r","a","p","h"," ","s","e","a","r","c","h">>,
    <<"g","p","t"," ","f","o","r"," ","t","a","s","k">> }

SampleSummaries == {
    <<>>,
    <<"p","l","a","n","n","i","n","g">>,
    <<"R","O","B","O","T"," ","P","L","A","N","N","I","N","G">>,
    <<"P","D","D","L">> }

SampleMust == {PyList(DEFAULT_MUST_INCLUDE_KEYWORDS), PyList(<<>>), PyList(<<KW_GPT>>)}

SampleOptional == {PyList(DEFAULT_OPTIONAL_KEYWORDS), PyList(<<>>),
                   PyList(<<KW_PDDL>>), PyList(<<KW_robot, KW_task>>)}

RelInputs ==
    [title : SampleTitles, summary : SampleSummaries,
     must : SampleMust, optional : SampleOptional]

RelIdle ==
    /\ relIn = [title |-> <<>>, summary |-> <<>>, must |-> PyList(<<>>),
                optional |-> PyList(<<>>)]
    /\ relOut = "pending"

RelInit ==
    /\ relIn \in RelInputs
    /\ relOut = "pending"

\* is_relevant(paper, must, optional) is evaluated
Evaluate ==
    /\ relOut = "pending"
    /\ relOut' = IF is_relevant(relIn, relIn.must, relIn.optional) THEN "True" ELSE "False"
    /\ UNCHANGED relIn

---------------------------------------------------------------------------
(* Specifications *)

Init == SearchInit /\ AppInit /\ RelIdle

Next ==
    \/ \E okw \in KeywordArgs, sd \in DateArgs, ed \in DateArgs, sb \in SortArgs :
          Call(okw, sd, ed, sb) /\ UNCHANGED appVars /\ UNCHANGED relVars
    \/ \E resp \in Responses : RunQuery(resp) /\ UNCHANGED appVars /\ UNCHANGED relVars
    \/ Return /\ UNCHANGED appVars /\ UNCHANGED relVars

\* search called directly
Spec == Init /\ [][Next]_vars

AppNext ==
    \/ \E w \in WidgetValues : Rerun(w) /\ UNCHANGED searchVars /\ UNCHANGED relVars
    \/ ClickSearch /\ UNCHANGED searchVars /\ UNCHANGED relVars
    \/ Tick /\ UNCHANGED searchVars /\ UNCHANGED relVars

\* one session of the Streamlit page
AppSpec == Init /\ [][AppNext]_vars

RelStart == SearchInit /\ AppInit /\ RelInit

RelNext == Evaluate /\ UNCHANGED searchVars /\ UNCHANGED appVars

\* is_relevant on its own
RelSpec == RelStart /\ [][RelNext]_vars

---------------------------------------------------------------------------
(* Properties of search (Spec) *)

DigitChars == <<"0","1","2","3","4","5","6","7","8","9">>

DigitValue(c) == CHOOSE n \in 0..9 : DigitChars[n + 1] = c

\* a str of exactly twelve ASCII digits
IsAsciiDate(v) ==
    /\ v.type = "str"
    /\ Len(v.val) = DateDigits
    /\ \A i \in 1..DateDigits : v.val[i] \in AsciiDigits

\* a str of exactly twelve decimal digits, of any script
IsTwelveDigits(v) ==
    /\ v.type = "str"
    /\ Len(v.val) = DateDigits
    /\ \A i \in 1..DateDigits : v.val[i] \in UnicodeDigits

\* a < b for two YYYYMMDDHHMM strings
DateStrBefore(a, b) ==
    \E i \in 1..DateDigits :
        /\ \A j \in 1..(i - 1) : a[j] = b[j]
        /\ DigitValue(a[i]) < DigitValue(b[i])

Called == pc # "idle"

\* C1: a call of search whose end_date is earlier than its start_date fails
\* with a validation error, and no query was issued to the API before that.
C1_EndBeforeStartRejected ==
    (/\ Called
     /\ IsAsciiDate(args.start_date)
     /\ IsAsciiDate(args.end_date)
     /\ DateStrBefore(args.end_date.val, args.start_date.val))
    => (Raised /\ issued = <<>>)

\* C2: a call of search whose start_date or end_date is not a string of
\* exactly twelve decimal digits raises at once: the API client was not
\* created, no query was issued, and no paper is returned.
C2_MalformedDateRejected ==
    (Called /\ (~IsTwelveDigits(args.start_date) \/ ~IsTwelveDigits(args.end_date)))
    => (Raised /\ ~client /\ issued = <<>> /\ papers = <<>>)

PaperLinks == {papers[k].link : k \in DOMAIN papers}

\* C3: with valid dates, API failures on any of the five queries never abort
\* search: the queries are issued once each in list order, search returns
\* normally, and the mapping returned holds every relevant result of the
\* queries that did not fail.
C3_QueryFailuresSkipped ==
    /\ (Called /\ validate_date_str(args.start_date) = "ok"
               /\ validate_date_str(args.end_date) = "ok") => ~Raised
    /\ pc \in {"loop", "returned"} =>
          /\ Len(issued) <= Len(queries)
          /\ \A i \in DOMAIN issued : issued[i].query = queries[i]
          /\ failed \subseteq DOMAIN issued
    /\ pc = "loop" /\ qi > Len(queries) => Len(issued) = Len(queries)
    /\ pc = "returned" =>
          /\ Len(issued) = Len(queries)
          /\ fetched.good \subseteq PaperLinks

\* search has returned although some, not all, queries failed, and the
\* queries that did not fail yielded a relevant result
C3_Witness ==
    /\ pc = "returned"
    /\ failed # {}
    /\ failed # DOMAIN queries
    /\ fetched.good # {}

\* C4: an identifier returned by two or more queries of one call has exactly
\* one entry in the mapping; the number of entries is the number of distinct
\* identifiers among the relevant results fetched.
C4_OneEntryPerIdentifier ==
    pc \in {"loop", "returned"} =>
       /\ \A id \in fetched.rel :
             Cardinality({k \in DOMAIN papers : papers[k].link = id}) = 1
       /\ Cardinality(DOMAIN papers) = Cardinality(fetched.rel)

\* search has returned and some identifier came from more than one query
C4_Witness ==
    /\ pc = "returned"
    /\ fetched.dup # {}
    /\ Cardinality(fetched.rel) > Cardinality(fetched.dup)

---------------------------------------------------------------------------
(* Properties of is_relevant (RelSpec) *)

SameLetter(a, b) ==
    \/ a = b
    \/ \E n \in DOMAIN UpperChars : {a, b} = {UpperChars[n], LowerChars[n]}

\* keyword k occurs in text t when case is ignored
OccursIgnoringCase(k, t) ==
    \E i \in 0..(Len(t) - Len(k)) :
        \A j \in 1..Len(k) : SameLetter(k[j], t[i + j])

TitleAndAbstract == relIn.title \o <<" ">> \o relIn.summary

\* C5: is_relevant is true exactly when at least one must-include keyword
\* and at least one optional keyword occurs, ignoring case, in the paper's
\* title and abstract; an empty keyword set makes it false.
C5_RelevantIff ==
    relOut # "pending" =>
       (relOut = "True" <=>
          /\ \E k \in Range(relIn.must.val) : OccursIgnoringCase(k, TitleAndAbstract)
          /\ \E k \in Range(relIn.optional.val) : OccursIgnoringCase(k, TitleAndAbstract))

\* a paper was found relevant although no must-include keyword occurs in it
\* in the keyword's own spelling
C5_Witness ==
    /\ relOut = "True"
    /\ \A k \in Range(relIn.must.val) : ~Contains(k, TitleAndAbstract)

---------------------------------------------------------------------------
(* Properties of the Streamlit page (AppSpec) *)

\* C6: the empty-results message is rendered only when the last Search
\* click's search completed without error and returned no paper; it is not
\* rendered in any run of the script before the first click.
C6_EmptyMessageOnlyAfterEmptySearch ==
    view.banner = "empty" =>
       /\ clicks > 0
       /\ trace.raised = "none"
       /\ DOMAIN trace.returned = {}

\* the page was rendered again before any click, without the message
C6_Witness ==
    /\ clicks = 0
    /\ widgets # InitWidgets
    /\ view.banner = "none"

C8_MemoizedSearch ==
    [][(clicks' = clicks + 1 /\ trace.key = CallKey(widgets)) =>
          IF now - trace.at < ttl
          THEN /\ trace'.queries_issued = 0
               /\ trace'.raised = trace.raised
               /\ trace'.returned = trace.returned
          ELSE /\ trace'.search_called
               /\ trace'.queries_issued > 0]_vars

DateLE(a, b) ==
    \/ a.y < b.y
    \/ a.y = b.y /\ a.m < b.m
    \/ a.y = b.y /\ a.m = b.m /\ a.d <= b.d

\* C9: after a Search click whose end date is not before its start date
\* (the default start included) the dates passed validation: the handler
\* ended with 'searched' true, the returned papers stored, and no error.
C9_FormDatesAccepted ==
    (view.search_button
       /\ DateLE(CallKey(widgets).start_date, CallKey(widgets).end_date))
    => /\ session.searched
       /\ view.error = "none"
       /\ session.papers = trace.returned

\* C10: the optional keywords the relevance filter iterates in a search
\* submitted through the form are the comma-separated keywords typed, or
\* the default list when the keyword text is empty.
C10_TypedKeywordsFilter ==
    (view.search_button /\ trace.search_called) =>
       trace.optional_keywords =
          IF widgets.keywords.val # <<>>
          THEN parse_keyword_list(widgets.keywords)
          ELSE DEFAULT_OPTIONAL_KEYWORDS

====
